---- MODULE Spec2Model ----
(***************************************************************************)
(* Model of ResearchPaperPipeline (src/research_pipeline.py): literature   *)
(* search, PDF fetch and text extraction, knowledge-base construction and  *)
(* section-by-section generation of the paper with its reference list.     *)
(*                                                                         *)
(* A text is a sequence of one-character strings.  The external services   *)
(* (arXiv, HTTP/PDF extraction, the chat-completion API) are modelled by   *)
(* their observable outcomes, chosen nondeterministically.                 *)
(*                                                                         *)
(* The pipeline is single-threaded.  search_literature,                    *)
(* fetch_and_parse_pdfs and build_knowledge_base are one step each;        *)
(* generate_structured_paper is one step per iteration of its loop over    *)
(* section_heads, and no other method starts before it has returned.       *)
(*                                                                         *)
(* An arXiv entry_id names one version of one paper, so the title, the     *)
(* authors, the pdf_url and the PDF of a paper are functions of its        *)
(* entry_id.                                                               *)
(***************************************************************************)
EXTENDS Integers, Sequences, FiniteSets, TLC

VARIABLES
    papers,          \* self.papers
    full_texts,      \* self.full_texts
    knowledge_base,  \* self.knowledge_base
    references,      \* self.references
    pc,              \* "idle", or "sections" while generate_structured_paper runs
    sec,             \* index of the next section of the loop of generate_structured_paper
    paper_markdown,  \* local paper_markdown of generate_structured_paper
    returned,        \* value returned by the most recent call
    last_op,         \* history: name of the most recent call
    llm_calls,       \* history: the requests the most recent call sent to the chat API
    phase,           \* history: "new" -> "fetched" -> "built" on the first fetch, build
    fetch_log        \* history: per paper outcome of the first fetch_and_parse_pdfs

vars == << papers, full_texts, knowledge_base, references, pc, sec,
           paper_markdown, returned, last_op, llm_calls, phase, fetch_log >>

----------------------------------------------------------------------------
(* Bounds of the model *)

\* largest max_results passed to search_literature
MaxResults == 3
\* fetch_and_parse_pdfs is not started once self.full_texts holds this many entries
MaxFullTexts == 1
\* build_knowledge_base is not started once self.knowledge_base holds this many chunks
MaxKnowledgeBase == 3
\* how often the outcome of the chat API changes between consecutive sections
MaxServiceChanges == 1

----------------------------------------------------------------------------
(* Program constants *)

\* build_knowledge_base: if len(chunk) > 50
MinChunkLen == 50
\* generate_structured_paper: self.knowledge_base[:3]
ChunksPerSection == 3
\* generate_structured_paper: ref['source_authors'][:2]
AuthorsShown == 2

section_heads == << "Abstract", "Introduction", "Related Work", "Methodology",
                    "Results", "Discussion", "Conclusion" >>

topic == "Contrastive Learning in Computer Vision"

\* the value of a call that returns nothing, and a message without content
None == << >>

----------------------------------------------------------------------------
(* Characters *)

Upper == { "A", "B", "C", "D", "E", "F", "G", "H", "I", "J", "K", "L", "M",
           "N", "O", "P", "Q", "R", "S", "T", "U", "V", "W", "X", "Y", "Z" }
Terminators == { ".", "!", "?" }
Whitespace == { " ", "\t", "\n", "\r", "\f" }

Min(a, b) == IF a < b THEN a ELSE b

Prefix(s, n) == SubSeq(s, 1, Min(n, Len(s)))

Range(s) == { s[i] : i \in 1..Len(s) }

RECURSIVE Concat(_)
Concat(ss) == IF ss = << >> THEN << >> ELSE Head(ss) \o Concat(Tail(ss))

----------------------------------------------------------------------------
(* The catalogue searched by search_literature and the PDFs behind it *)

Rep(c, n) == [ i \in 1..n |-> c ]

\* a sentence of n characters: a capital, n - 2 copies of c, a full stop
Sent(u, c, n) == << u >> \o Rep(c, n - 2) \o << "." >>

Paper1 == [ title |-> "T1", authors |-> << "Ann" >>,
            pdf_url |-> "http://arxiv.org/pdf/1", entry_id |-> "http://arxiv.org/abs/1" ]
Paper2 == [ title |-> "T2", authors |-> << "Bob", "Cyd", "Dee" >>,
            pdf_url |-> "http://arxiv.org/pdf/2", entry_id |-> "http://arxiv.org/abs/2" ]
Paper3 == [ title |-> "T3", authors |-> << "Eve", "Fay" >>,
            pdf_url |-> "http://arxiv.org/pdf/3", entry_id |-> "http://arxiv.org/abs/3" ]

\* relevance ranking of the catalogue for the topic
Ranking == << Paper1, Paper2, Paper3 >>

\* page.extract_text() of every page of the PDF at a url
PdfPages(url) ==
    CASE url = Paper1.pdf_url ->
           \* pieces of 51, 51 (a repeat), 50 and 49 characters, the last one
           \* followed by the newline that ends the page
           << Sent("A", "a", 51) \o << " " >> \o Sent("A", "a", 51) \o << " " >>
              \o Sent("B", "b", 50) \o << "\n" >> \o Sent("C", "c", 49) >>
      [] url = Paper2.pdf_url ->
           << Sent("D", "d", 52) \o << " ", " " >> \o Sent("E", "e", 53)
              \o << "\r", "\n" >> \o Sent("I", "i", 51),
              \* ". f" and "g H" are no boundaries
              << "F", "." , " " >> \o Rep("f", 50) \o << "?", "\t", "G" >> \o Rep("g", 50)
              \o << " ", "H", "h", "!" >> >>
      [] OTHER -> << >>

----------------------------------------------------------------------------
(* search_literature *)

\* list(search.results()): the max_results most relevant papers
search_results(max_results) == Prefix(Ranking, max_results)

----------------------------------------------------------------------------
(* fetch_and_parse_pdfs *)

\* what requests.get / raise_for_status / PdfReader / extract_text do for a paper
FetchOutcomes == { "ok", "http_error", "extract_error" }

\* text = ""; for page in pdf_reader.pages: text += page.extract_text() + "\n"
RECURSIVE extract_text(_)
extract_text(pages) ==
    IF pages = << >> THEN << >>
    ELSE Head(pages) \o << "\n" >> \o extract_text(Tail(pages))

\* variant of fetch_one: the entry is added whatever the outcome
fetch_one_always(paper, outcome) ==
    << [ title |-> paper.title, authors |-> paper.authors,
         full_text |-> extract_text(PdfPages(paper.pdf_url)),
         url |-> paper.pdf_url, entry_id |-> paper.entry_id ] >>

\* the body of the loop: the entries one paper adds to self.full_texts
fetch_one(paper, outcome) ==
    IF outcome = "ok"
    THEN << [ title |-> paper.title, authors |-> paper.authors,
              full_text |-> extract_text(PdfPages(paper.pdf_url)),
              url |-> paper.pdf_url, entry_id |-> paper.entry_id ] >>
    ELSE << >>

fetch_loop(ps, outcomes) ==
    Concat([ i \in 1..Len(ps) |-> fetch_one(ps[i], outcomes[i]) ])

----------------------------------------------------------------------------
(* build_knowledge_base *)

\* first index at or after i that holds no whitespace
RECURSIVE SkipWhitespace(_, _)
SkipWhitespace(text, i) ==
    IF i <= Len(text) /\ text[i] \in Whitespace THEN SkipWhitespace(text, i + 1) ELSE i

\* (?<=[.!?])\s+(?=[A-Z]) matched at position i: the index of the last
\* character of the match, 0 when there is no match at i
MatchEnd(text, i) ==
    IF i > 1 /\ i <= Len(text) /\ text[i - 1] \in Terminators /\ text[i] \in Whitespace
    THEN LET j == SkipWhitespace(text, i)
         IN  IF j <= Len(text) /\ text[j] \in Upper THEN j - 1 ELSE 0
    ELSE 0

\* the positions at which the pattern matches; a match starts after a
\* terminator, so no match starts inside another
Matches(text) == { i \in 1..Len(text) : MatchEnd(text, i) > 0 }

\* the pieces from position start on, cut at the matches ms, leftmost first
RECURSIVE SplitAt(_, _, _)
SplitAt(text, start, ms) ==
    IF ms = { } THEN << SubSeq(text, start, Len(text)) >>
    ELSE LET i == CHOOSE m \in ms : \A n \in ms : m <= n
         IN  << SubSeq(text, start, i - 1) >>
             \o SplitAt(text, MatchEnd(text, i) + 1, ms \ { i })

\* re.split(r'(?<=[.!?])\s+(?=[A-Z])', text)
re_split(text) == SplitAt(text, 1, Matches(text))

\* variants of keep_chunk: >= 50 and > 51
keep_chunk_ge(chunk) == Len(chunk) >= MinChunkLen

keep_chunk_51(chunk) == Len(chunk) > MinChunkLen + 1

\* if len(chunk) > 50
keep_chunk(chunk) == Len(chunk) > MinChunkLen

make_chunk(chunk, paper_info) ==
    [ text |-> chunk, source_title |-> paper_info.title,
      source_authors |-> paper_info.authors, source_url |-> paper_info.url,
      source_id |-> paper_info.entry_id ]

\* the inner loop: the chunks one entry of self.full_texts adds
paper_chunks(paper_info) ==
    LET chunks == re_split(paper_info.full_text)
        kept   == SelectSeq(chunks, keep_chunk)
    IN  [ i \in 1..Len(kept) |-> make_chunk(kept[i], paper_info) ]

build_loop(texts) ==
    Concat([ i \in 1..Len(texts) |-> paper_chunks(texts[i]) ])

----------------------------------------------------------------------------
(* _format_chunks_for_prompt and _query_llm *)

\* one entry per "[Source ID: {idx+1}]: {chunk['text']}\n\n", idx counted from 0
format_chunks_for_prompt(chunks) ==
    [ i \in 1..Len(chunks) |-> [ source_id |-> (i - 1) + 1, text |-> chunks[i].text ] ]

\* the f-string section_prompt: what varies in it
section_prompt(section, relevant_chunks) ==
    [ section |-> section, topic |-> topic,
      excerpts |-> format_chunks_for_prompt(relevant_chunks) ]

\* a message content the chat API may answer with: a sequence of words and
\* whitespace characters, here with a bolded sub-header and two section names
RawLeaky == << "\n", " ", "**Overview**", "\n", "See", " ", "Methodology", " ", "and",
               " ", "Results", " ", "[2]", ".", " ", "\n" >>

\* what client.chat.completions.create does: it answers with a message whose
\* content is a text, it answers with a message whose content is None, or it raises
LlmOutcomes ==
    { [ raises |-> FALSE, has_content |-> TRUE, content |-> RawLeaky, error |-> "" ],
      [ raises |-> FALSE, has_content |-> FALSE, content |-> None, error |-> "" ],
      [ raises |-> TRUE, has_content |-> FALSE, content |-> None,
        error |-> "Request timed out." ] }

RECURSIVE lstrip(_)
lstrip(s) == IF s # << >> /\ Head(s) \in Whitespace THEN lstrip(Tail(s)) ELSE s

RECURSIVE rstrip(_)
rstrip(s) ==
    IF s # << >> /\ s[Len(s)] \in Whitespace THEN rstrip(SubSeq(s, 1, Len(s) - 1)) ELSE s

\* str.strip()
strip(s) == lstrip(rstrip(s))

\* str(e) of the exception the try block ends with
ErrorText(outcome) ==
    IF outcome.raises THEN outcome.error
    ELSE "'NoneType' object has no attribute 'strip'"

\* the try block fails: create raised, or content is None and .strip() raised
Fails(outcome) == outcome.raises \/ ~outcome.has_content

\* variant of query_llm: the except branch drops the text of the exception
query_llm_placeholder(outcome) ==
    IF Fails(outcome)
    THEN << "Error generating content" >>
    ELSE strip(outcome.content)

\* the try block and the except branch of _query_llm
query_llm(outcome) ==
    IF Fails(outcome)
    THEN << "Error generating content: ", ErrorText(outcome) >>
    ELSE strip(outcome.content)

----------------------------------------------------------------------------
(* generate_structured_paper *)

\* variant of select_chunks: self.knowledge_base[:2]
select_chunks_2(kb) == Prefix(kb, ChunksPerSection - 1)

\* relevant_chunks = self.knowledge_base[:3]
select_chunks(kb) == Prefix(kb, ChunksPerSection)

\* variant of add_reference: no membership test
add_reference_always(refs, chunk) == Append(refs, chunk)

\* if chunk not in self.references: self.references.append(chunk)
add_reference(refs, chunk) ==
    IF chunk \in Range(refs) THEN refs ELSE Append(refs, chunk)

\* for chunk in relevant_chunks: ...
RECURSIVE add_references(_, _)
add_references(refs, chunks) ==
    IF chunks = << >> THEN refs
    ELSE add_references(add_reference(refs, Head(chunks)), Tail(chunks))

\* paper_markdown = f"# Research Paper: {self.topic}\n\n"
title_block == << [ kind |-> "title", text |-> topic ] >>

\* variant of section_block: a section whose call failed is left out
section_block_skip(section, section_text) ==
    IF Head(section_text) = "Error generating content: " THEN << >>
    ELSE << [ kind |-> "heading", text |-> section ],
            [ kind |-> "body", text |-> section_text ] >>

\* paper_markdown += f"## {section}\n\n{section_text}\n\n"
section_block(section, section_text) ==
    << [ kind |-> "heading", text |-> section ],
       [ kind |-> "body", text |-> section_text ] >>

\* variant of reference_line: the number is i, counted from 0
reference_line_0(i, ref) ==
    [ kind |-> "reference", number |-> i - 1, title |-> ref.source_title,
      authors |-> Prefix(ref.source_authors, AuthorsShown), url |-> ref.source_url ]

\* f"{[i+1]} {ref['source_title']} by {', '.join(ref['source_authors'][:2])}.
\*   {ref['source_url']}\n", i counted from 0
reference_line(i, ref) ==
    [ kind |-> "reference", number |-> (i - 1) + 1, title |-> ref.source_title,
      authors |-> Prefix(ref.source_authors, AuthorsShown), url |-> ref.source_url ]

\* paper_markdown += "## References\n\n" and the loop over self.references
references_block(refs) ==
    << [ kind |-> "heading", text |-> "References" ] >>
    \o [ i \in 1..Len(refs) |-> reference_line(i, refs[i]) ]

\* number of positions at which the chat API's outcome differs from the one before
ServiceChanges(outcomes) ==
    Cardinality({ i \in 2..Len(outcomes) : outcomes[i] # outcomes[i - 1] })

CallOutcomes == [ i \in 1..Len(llm_calls) |-> llm_calls[i].outcome ]

----------------------------------------------------------------------------
(* The state machine *)

Init ==
    /\ papers = << >>
    /\ full_texts = << >>
    /\ knowledge_base = << >>
    /\ references = << >>
    /\ pc = "idle"
    /\ sec = 0
    /\ paper_markdown = << >>
    /\ returned = None
    /\ last_op = "init"
    /\ llm_calls = << >>
    /\ phase = "new"
    /\ fetch_log = << >>

search_literature ==
    /\ pc = "idle"
    /\ \E max_results \in 0..MaxResults : papers' = search_results(max_results)
    /\ returned' = None
    /\ last_op' = "search"
    /\ llm_calls' = << >>
    /\ UNCHANGED << full_texts, knowledge_base, references, pc, sec, paper_markdown,
                    phase, fetch_log >>

fetch_and_parse_pdfs ==
    /\ pc = "idle"
    /\ Len(full_texts) < MaxFullTexts
    /\ \E outcomes \in [ 1..Len(papers) -> FetchOutcomes ] :
          /\ full_texts' = full_texts \o fetch_loop(papers, outcomes)
          /\ fetch_log' = IF phase = "new"
                          THEN [ i \in 1..Len(papers) |->
                                   [ paper |-> papers[i], ok |-> outcomes[i] = "ok" ] ]
                          ELSE << >>
    /\ phase' = IF phase = "new" THEN "fetched" ELSE "later"
    /\ returned' = None
    /\ last_op' = "fetch"
    /\ llm_calls' = << >>
    /\ UNCHANGED << papers, knowledge_base, references, pc, sec, paper_markdown >>

build_knowledge_base ==
    /\ pc = "idle"
    /\ Len(knowledge_base) < MaxKnowledgeBase
    /\ knowledge_base' = knowledge_base \o build_loop(full_texts)
    /\ phase' = IF phase = "fetched" THEN "built" ELSE "later"
    /\ fetch_log' = IF phase = "fetched" THEN fetch_log ELSE << >>
    /\ returned' = None
    /\ last_op' = "build"
    /\ llm_calls' = << >>
    /\ UNCHANGED << papers, full_texts, references, pc, sec, paper_markdown >>

\* lines 82-84: the call starts
generate_start ==
    /\ pc = "idle"
    /\ pc' = "sections"
    /\ sec' = 1
    /\ paper_markdown' = title_block
    /\ returned' = None
    /\ last_op' = "generate"
    /\ llm_calls' = << >>
    /\ UNCHANGED << papers, full_texts, knowledge_base, references, phase, fetch_log >>

\* lines 86-115: one iteration of the loop over section_heads
generate_section ==
    /\ pc = "sections"
    /\ sec <= Len(section_heads)
    /\ \E outcome \in LlmOutcomes :
          LET section         == section_heads[sec]
              relevant_chunks == select_chunks(knowledge_base)
              prompt          == section_prompt(section, relevant_chunks)
              section_text    == query_llm(outcome)
          IN  /\ ServiceChanges(Append(CallOutcomes, outcome)) <= MaxServiceChanges
              /\ llm_calls' = Append(llm_calls, [ prompt |-> prompt, outcome |-> outcome,
                                                  evidence |-> relevant_chunks ])
              /\ paper_markdown' = paper_markdown \o section_block(section, section_text)
              /\ references' = add_references(references, relevant_chunks)
    /\ sec' = sec + 1
    /\ UNCHANGED << papers, full_texts, knowledge_base, pc, returned, last_op,
                    phase, fetch_log >>

\* lines 117-122: the references section and the return
generate_finish ==
    /\ pc = "sections"
    /\ sec > Len(section_heads)
    /\ returned' = paper_markdown \o references_block(references)
    /\ pc' = "idle"
    /\ sec' = 0
    /\ paper_markdown' = << >>
    /\ UNCHANGED << papers, full_texts, knowledge_base, references, last_op, llm_calls,
                    phase, fetch_log >>

Next ==
    \/ search_literature
    \/ fetch_and_parse_pdfs
    \/ build_knowledge_base
    \/ generate_start
    \/ generate_section
    \/ generate_finish

Spec == Init /\ [][Next]_vars

----------------------------------------------------------------------------
(* Vocabulary of the properties *)

\* generate_structured_paper has returned and nothing was called since
Returned == pc = "idle" /\ last_op = "generate"

\* the elements of s in the order of their first occurrence
RECURSIVE FirstOccurrences(_)
FirstOccurrences(s) ==
    IF s = << >> THEN << >>
    ELSE LET r == FirstOccurrences(SubSeq(s, 1, Len(s) - 1))
         IN  IF s[Len(s)] \in Range(r) THEN r ELSE Append(r, s[Len(s)])

Distinct(s) == \A i, j \in 1..Len(s) : i # j => s[i] # s[j]

OfKind(doc, k) == SelectSeq(doc, LAMBDA b : b.kind = k)

\* the section bodies and the entries of the References block of a document
Bodies(doc) == OfKind(doc, "body")
RefLines(doc) == OfKind(doc, "reference")

\* every fragment offered to the chat API by the call, section after section
Cited == Concat([ i \in 1..Len(llm_calls) |-> llm_calls[i].evidence ])

AllCallsFail == \A i \in 1..Len(llm_calls) : Fails(llm_calls[i].outcome)

\* the pieces the split makes of the text of an entry of self.full_texts
Pieces(paper_info) == Range(re_split(paper_info.full_text))

\* the piece became a fragment of the knowledge base, for that paper
IsFragment(piece, paper_info) ==
    \E i \in 1..Len(knowledge_base) :
        /\ knowledge_base[i].text = piece
        /\ knowledge_base[i].source_id = paper_info.entry_id

----------------------------------------------------------------------------
(* C1 *)

\* C1: no two entries at different positions of self.references have the same
\* (text, source_id) pair, in every state and so whenever
\* generate_structured_paper returns, whatever calls came before.
C1_ReferenceDedup ==
    \A i, j \in 1..Len(references) :
        i # j => << references[i].text, references[i].source_id >>
                 # << references[j].text, references[j].source_id >>

\* a call returned after offering a repeated fragment next to another one
C1_Witness ==
    /\ Returned
    /\ Len(knowledge_base) >= 3
    /\ knowledge_base[1] = knowledge_base[2]
    /\ Len(references) = 2

----------------------------------------------------------------------------
(* C2 *)

\* C2: when generate_structured_paper returns, the References block numbers its
\* entries 1..N without gap or repeat, N being the number of references, and
\* entry k describes the k-th fragment in first-citation order over the
\* sections taken in section_heads order.
C2_NumberingConsistency ==
    Returned =>
        LET lines == RefLines(returned)
            first == FirstOccurrences(Cited)
        IN  /\ Len(lines) = Len(references)
            /\ Len(lines) = Len(first)
            /\ \A k \in 1..Len(lines) :
                  /\ lines[k].number = k
                  /\ lines[k].title = first[k].source_title
                  /\ lines[k].url = first[k].source_url
                  /\ lines[k].authors = Prefix(first[k].source_authors, AuthorsShown)

\* a returned document whose two references come from two papers, the second
\* one first cited after a repeat of the first
C2_Witness ==
    /\ Returned
    /\ Len(RefLines(returned)) = 2
    /\ RefLines(returned)[1].title # RefLines(returned)[2].title
    /\ Len(Cited) > Len(FirstOccurrences(Cited))

----------------------------------------------------------------------------
(* C3 *)

\* C3 as stated: if every call to the chat API fails, generate_structured_paper
\* returns one body per section and all bodies are one and the same placeholder,
\* whatever the failures were.
C3_FixedPlaceholder ==
    (Returned /\ AllCallsFail) =>
        /\ Len(Bodies(returned)) = Len(section_heads)
        /\ \A i, j \in 1..Len(Bodies(returned)) :
              Bodies(returned)[i] = Bodies(returned)[j]

\* C3 amended: if every call to the chat API fails, generate_structured_paper
\* returns one body per section, and each body is the fixed prefix
\* "Error generating content: " followed by the text of that call's failure;
\* two bodies are equal exactly when the two failures have the same text.
C3_Degradation ==
    (Returned /\ AllCallsFail) =>
        LET bodies == Bodies(returned)
        IN  /\ Len(bodies) = Len(section_heads)
            /\ Len(llm_calls) = Len(section_heads)
            /\ \A i \in 1..Len(bodies) :
                  /\ Len(bodies[i].text) = 2
                  /\ bodies[i].text[1] = "Error generating content: "
                  /\ bodies[i].text[2] = ErrorText(llm_calls[i].outcome)
            /\ \A i, j \in 1..Len(bodies) :
                  (bodies[i] = bodies[j])
                  <=> (ErrorText(llm_calls[i].outcome) = ErrorText(llm_calls[j].outcome))

\* every call failed, with two different failures
C3_Witness ==
    /\ Returned
    /\ AllCallsFail
    /\ llm_calls[1].outcome.raises
    /\ ~llm_calls[Len(section_heads)].outcome.raises

----------------------------------------------------------------------------
(* C4 *)

\* the fragments a successfully fetched paper contributes, in split order
SurvivingPieces(paper) ==
    LET pieces == re_split(extract_text(PdfPages(paper.pdf_url)))
        long   == SelectSeq(pieces, LAMBDA c : Len(c) > MinChunkLen)
    IN  [ i \in 1..Len(long) |->
            [ text |-> long[i], source_title |-> paper.title,
              source_authors |-> paper.authors, source_url |-> paper.pdf_url,
              source_id |-> paper.entry_id ] ]

\* C4: after fetch_and_parse_pdfs followed by build_knowledge_base on a fresh
\* pipeline, self.knowledge_base is the concatenation, in processing order, of
\* the surviving pieces of every paper that was fetched and extracted; a paper
\* whose fetch or extraction failed contributes nothing and changes nothing
\* of the others.
C4_OrderPreservation ==
    phase = "built" =>
        knowledge_base =
            Concat([ i \in 1..Len(fetch_log) |->
                       IF fetch_log[i].ok THEN SurvivingPieces(fetch_log[i].paper)
                       ELSE << >> ])

\* the first paper failed, the second one was fetched and contributed its five
C4_Witness ==
    /\ phase = "built"
    /\ Len(fetch_log) >= 2
    /\ ~fetch_log[1].ok
    /\ fetch_log[2].ok
    /\ Len(knowledge_base) = 5

----------------------------------------------------------------------------
(* C5 *)

\* C5: the chat API is called once per section name, in section_heads order
\* (at every moment the calls made so far are the first sections, in order),
\* and the returned document is the title, then one heading and one body per
\* section name in that order, then the References heading and its entries,
\* whether the calls succeeded or failed.
C5_SectionOrdering ==
    /\ Len(llm_calls) <= Len(section_heads)
    /\ \A i \in 1..Len(llm_calls) : llm_calls[i].prompt.section = section_heads[i]
    /\ Returned =>
          /\ Len(llm_calls) = Len(section_heads)
          /\ Len(returned) = 1 + 2 * Len(section_heads) + 1 + Len(references)
          /\ returned[1].kind = "title"
          /\ \A i \in 1..Len(section_heads) :
                /\ returned[2 * i] = [ kind |-> "heading", text |-> section_heads[i] ]
                /\ returned[2 * i + 1].kind = "body"
                /\ returned[2 * i + 1].text = query_llm(llm_calls[i].outcome)
          /\ returned[2 * Len(section_heads) + 2]
                = [ kind |-> "heading", text |-> "References" ]
          /\ \A n \in (2 * Len(section_heads) + 3)..Len(returned) :
                returned[n].kind = "reference"

\* a returned document of which some sections failed and some succeeded
C5_Witness ==
    /\ Returned
    /\ \E i, j \in 1..Len(llm_calls) :
          i < j /\ Fails(llm_calls[i].outcome) /\ ~Fails(llm_calls[j].outcome)

----------------------------------------------------------------------------
(* C6 *)

\* C6: every section is offered the first min(3, len(knowledge_base)) fragments
\* in knowledge-base order, whatever its name; when generate_structured_paper
\* returns, self.references is that prefix without its repeats, in
\* knowledge-base order, whatever the outcomes of the calls; five distinct
\* fragments give exactly three references, and an empty knowledge base gives
\* seven sections drafted from no excerpt and no reference.
C6_PositionalSelection ==
    /\ \A i \in 1..Len(llm_calls) :
          /\ llm_calls[i].evidence
                = SubSeq(knowledge_base, 1, Min(3, Len(knowledge_base)))
          /\ Len(llm_calls[i].prompt.excerpts) = Len(llm_calls[i].evidence)
          /\ \A k \in 1..Len(llm_calls[i].evidence) :
                llm_calls[i].prompt.excerpts[k].text = llm_calls[i].evidence[k].text
    /\ Returned =>
          /\ references
                = FirstOccurrences(SubSeq(knowledge_base, 1, Min(3, Len(knowledge_base))))
          /\ (Len(knowledge_base) = 5 /\ Distinct(knowledge_base)) => Len(references) = 3
          /\ knowledge_base = << >> =>
                /\ references = << >>
                /\ Len(Bodies(returned)) = Len(section_heads)
                /\ \A i \in 1..Len(llm_calls) : llm_calls[i].prompt.excerpts = << >>

\* a call returned over a knowledge base of five distinct fragments
C6_Witness ==
    /\ Returned
    /\ Len(knowledge_base) = 5
    /\ Distinct(knowledge_base)
    /\ Len(references) = 3
    /\ \E i, j \in 1..Len(llm_calls) : llm_calls[i].outcome # llm_calls[j].outcome

----------------------------------------------------------------------------
(* C7 *)

\* C7: in every state every entry of self.knowledge_base has a text of more
\* than 50 characters.
C7_FragmentLength ==
    \A i \in 1..Len(knowledge_base) : Len(knowledge_base[i].text) > 50

\* built from an empty text and from a text with a piece of exactly 50 characters
C7_Witness ==
    /\ last_op = "build"
    /\ knowledge_base # << >>
    /\ \E i \in 1..Len(full_texts) : full_texts[i].full_text = << >>
    /\ \E i \in 1..Len(full_texts) : \E c \in Pieces(full_texts[i]) : Len(c) = 50

----------------------------------------------------------------------------
(* C8 *)

\* what sanitization would take out of the body of a section: bolded
\* sub-headers and the names of the other sections
Artifacts(section) == { "**Overview**" } \cup (Range(section_heads) \ { section })

\* C8 as stated: the body of every section holds no bolded sub-header and no
\* name of another section, whatever the chat API answered.
C8_OutputSanitized ==
    Returned =>
        \A i \in 1..Len(Bodies(returned)) :
            Range(Bodies(returned)[i].text) \cap Artifacts(section_heads[i]) = { }

----------------------------------------------------------------------------
(* C9 *)

\* C9 as stated: right after build_knowledge_base, a piece of a text is a
\* fragment if and only if it has 50 characters or more.
C9_DiscardShorterThan50 ==
    last_op = "build" =>
        \A i \in 1..Len(full_texts) : \A c \in Pieces(full_texts[i]) :
            (Len(c) >= 50) <=> IsFragment(c, full_texts[i])

\* C9 amended: right after build_knowledge_base, a piece of a text is a
\* fragment if and only if it has more than 50 characters: a piece of 50
\* characters or fewer is discarded, a piece of 51 or more is kept.
C9_DiscardUpTo50 ==
    last_op = "build" =>
        \A i \in 1..Len(full_texts) : \A c \in Pieces(full_texts[i]) :
            (Len(c) >= 51) <=> IsFragment(c, full_texts[i])

\* built from a text with pieces of 49, 50 and 51 characters
C9_Witness ==
    /\ last_op = "build"
    /\ \E i \in 1..Len(full_texts) :
          /\ \E c \in Pieces(full_texts[i]) : Len(c) = 49 + 1 /\ c[Len(c)] = "\n"
          /\ \E c \in Pieces(full_texts[i]) : Len(c) = 50 /\ c[Len(c)] = "."
          /\ \E c \in Pieces(full_texts[i]) : Len(c) = 51 /\ IsFragment(c, full_texts[i])

----------------------------------------------------------------------------
(* C10 *)

\* C10 as stated: for every section and every k, the fragment offered to the
\* chat API as "[Source ID: k]" is the fragment the References block lists
\* under number k.
C10_CitationAgreement ==
    Returned =>
        \A i \in 1..Len(llm_calls) : \A k \in 1..Len(llm_calls[i].prompt.excerpts) :
            LET excerpt == llm_calls[i].prompt.excerpts[k]
                n       == excerpt.source_id
            IN  /\ n <= Len(references)
                /\ references[n].text = excerpt.text
                /\ RefLines(returned)[n].number = n
                /\ RefLines(returned)[n].title = llm_calls[i].evidence[k].source_title

====
